---------------------------- MODULE Spec2Model ----------------------------
(***************************************************************************)
(* Model of app.py, the COVID health analytics dashboard: load_data (the   *)
(* cached loader and metric deriver), the sidebar filter, the KPI summary, *)
(* the grouped views (trend, risk, deaths-vs-recovery, population impact,  *)
(* peak) and the CSV export, each re-run by Streamlit on every widget      *)
(* interaction.                                                            *)
(*                                                                         *)
(* Floating-point columns are modelled exactly: a value is NaN (pandas'    *)
(* null), +inf, or a rational in lowest terms.  Raw counts are the         *)
(* non-negative integers of the data model, so -inf never arises.  Dates   *)
(* are day numbers.  The Month label (app.py line 11) is read by nothing   *)
(* downstream and is left out.                                             *)
(***************************************************************************)
EXTENDS Integers, Sequences, FiniteSets, TLC

-----------------------------------------------------------------------------
(* Bounds of the model.                                                    *)

\* Rows of a short input file.
MaxRows == 2
\* Dates of a short input file are 1..MaxDate.
MaxDate == 2
\* A long input file gives country "A" Window + ExtraLong consecutive daily
\* rows.
ExtraLong == 1
\* Rows of country "B" interleaved in a long input file.
MaxOther == 1
\* The date picker offers the dates within Margin - 1 days of either end of
\* the data.
Margin == 2

-----------------------------------------------------------------------------
(* Program constants.                                                      *)

Percent == 100              \* "* 100", lines 15, 16, 19, 22, 47, 48
Million == 1000000          \* "* 1_000_000", lines 17, 18
Window == 7                 \* rolling(7), line 23
BinLow == 0                 \* bins=[0, 1000, 5000, 20000, np.inf], line 75
BinModerate == 1000
BinHigh == 5000
BinCritical == 20000

-----------------------------------------------------------------------------
(* float64 values: NaN, +inf, or the rational n/d with d > 0, gcd(n,d) = 1 *)

NaN == [k |-> "nan", n |-> 0, d |-> 1]
Inf == [k |-> "inf", n |-> 0, d |-> 1]

Abs(x) == IF x < 0 THEN -x ELSE x

RECURSIVE GCD(_, _)
GCD(a, b) == IF b = 0 THEN a ELSE GCD(b, a % b)

Num(n, d) == LET g == GCD(Abs(n), d) IN [k |-> "num", n |-> n \div g, d |-> d \div g]

IsNull(v) == v.k = "nan"
IsNum(v) == v.k = "num"

\* int64 / int64 of two Series (numpy true_divide): x/0 is inf for x > 0 and
\* NaN for x = 0; nothing is raised.
TrueDiv(a, b) ==
    IF b = 0 THEN (IF a = 0 THEN NaN ELSE Inf) ELSE Num(a, b)

\* float * positive integer constant.
Scale(v, c) ==
    IF ~IsNum(v) THEN v
    ELSE LET g == GCD(c, v.d) IN Num(v.n * (c \div g), v.d \div g)

\* float - 1.
SubOne(v) == IF ~IsNum(v) THEN v ELSE Num(v.n - v.d, v.d)

\* float + float (no -inf in the model, so inf + x = inf).
FAdd(v, w) ==
    IF IsNull(v) \/ IsNull(w) THEN NaN
    ELSE IF v.k = "inf" \/ w.k = "inf" THEN Inf
    ELSE LET g == GCD(v.d, w.d)
         IN  Num(v.n * (w.d \div g) + w.n * (v.d \div g), (v.d \div g) * w.d)

\* float / positive integer count.
FDivInt(v, c) ==
    IF ~IsNum(v) THEN v
    ELSE LET g == GCD(Abs(v.n), c) IN Num(v.n \div g, v.d * (c \div g))

\* v < w and v <= w on non-NaN values.
FLess(v, w) ==
    /\ v.k = "num"
    /\ (w.k = "inf" \/ v.n * w.d < w.n * v.d)
FLeq(v, w) == v = w \/ FLess(v, w)


-----------------------------------------------------------------------------
(* Columns and CSV text.                                                   *)

RawCols == {"Date", "Country", "Continent", "Population", "Confirmed",
            "Deaths", "Recovered", "Active"}
IntCols == {"Date", "Population", "Confirmed", "Deaths", "Recovered", "Active"}
TextCols == {"Country", "Continent"}
LocalCols == {"CFR", "RecoveryRate", "CasesPerMillion", "DeathsPerMillion",
              "ActiveRatio"}
GroupCols == {"DailyGrowth", "SevenDayAvg"}
DerivedCols == LocalCols \cup GroupCols

\* Decimal text of a non-negative integer, most significant digit first.
RECURSIVE ToDigits(_)
ToDigits(n) == IF n < 10 THEN <<n>> ELSE Append(ToDigits(n \div 10), n % 10)

RECURSIVE FromDigits(_)
FromDigits(t) ==
    IF Len(t) = 0 THEN 0
    ELSE 10 * FromDigits(SubSeq(t, 1, Len(t) - 1)) + t[Len(t)]

\* to_csv's text of one cell: integers and dates in decimal, strings as they
\* are, a float by its repr with NaN as the empty field (na_rep = '').
CellText(c, v) ==
    IF c \in IntCols THEN ToDigits(v)
    ELSE IF c \in TextCols THEN v
    ELSE IF IsNull(v) THEN <<>> ELSE <<v>>

\* read_csv's value of one cell (Date through parse_dates).
ParseCell(c, t) ==
    IF c \in IntCols THEN FromDigits(t)
    ELSE IF c \in TextCols THEN t
    ELSE IF t = <<>> THEN NaN ELSE t[1]

\* DataFrame.to_csv(index=False): every column but the index label.
to_csv(frame) ==
    [i \in 1..Len(frame) |->
        [c \in (DOMAIN frame[i]) \ {"idx"} |-> CellText(c, frame[i][c])]]

\* pd.read_csv(..., parse_dates=["Date"]): the rows in file order under a
\* fresh RangeIndex 0..n-1.
read_csv(text) ==
    [i \in 1..Len(text) |->
        [c \in (DOMAIN text[i]) \cup {"idx"} |->
            IF c = "idx" THEN i - 1 ELSE ParseCell(c, text[i][c])]]

-----------------------------------------------------------------------------
(* load_data.                                                              *)

Rows(frame) == {frame[i] : i \in 1..Len(frame)}

MinDate(S) == CHOOSE x \in {r.Date : r \in S} : \A r \in S : x <= r.Date
MaxDateOf(S) == CHOOSE x \in {r.Date : r \in S} : \A r \in S : x >= r.Date

\* df.sort_values("Date"): the default kind is quicksort, which is not
\* stable, so rows of equal Date may come out in any order.
RECURSIVE SortOutcomes(_)
SortOutcomes(S) ==
    IF S = {} THEN {<<>>}
    ELSE LET first == {r \in S : r.Date = MinDate(S)}
         IN  UNION {{<<r>> \o t : t \in SortOutcomes(S \ {r})} : r \in first}

sort_values(frame) == SortOutcomes(Rows(frame))

\* groupby("Country"): the positions of one country's rows, in frame order.
GroupPositions(frame, c) ==
    LET F[i \in 0..Len(frame)] ==
            IF i = 0 THEN <<>>
            ELSE IF frame[i].Country = c THEN Append(F[i - 1], i) ELSE F[i - 1]
    IN  F[Len(frame)]

\* The ungrouped variant: every row in one group.
AllPositions(frame, c) == [i \in 1..Len(frame) |-> i]

\* Position of frame row p inside the group g.
RankIn(g, p) == CHOOSE k \in 1..Len(g) : g[k] = p

SumInts(x, lo, hi) ==
    LET F[i \in (lo - 1)..hi] == IF i < lo THEN 0 ELSE F[i - 1] + x[i]
    IN  F[hi]

\* Series.pct_change(): x / x.shift(1) - 1.
pct_change(x) ==
    [i \in 1..Len(x) |->
        IF i = 1 THEN NaN ELSE SubOne(TrueDiv(x[i], x[i - 1]))]

\* Series.rolling(w).mean(): min_periods = w.
rolling_mean(x, w) ==
    [i \in 1..Len(x) |->
        IF i < w THEN NaN ELSE Num(SumInts(x, i - w + 1, i), w)]

ConfirmedOf(frame, g) == [k \in 1..Len(g) |-> frame[g[k]].Confirmed]

\* Line 22 without the groupby.
DailyGrowthUngrouped(frame, p) ==
    Scale(pct_change(ConfirmedOf(frame, AllPositions(frame, "")))[p], Percent)

\* Line 22: df.groupby("Country")["Confirmed"].pct_change() * 100, at row p.
DailyGrowthAt(frame, p) ==
    LET g == GroupPositions(frame, frame[p].Country)
    IN  Scale(pct_change(ConfirmedOf(frame, g))[RankIn(g, p)], Percent)

\* Line 23 without the groupby.
SevenDayAvgUngrouped(frame, p) ==
    rolling_mean(ConfirmedOf(frame, AllPositions(frame, "")), Window)[p]

\* Line 23: groupby("Country")["Confirmed"].transform(rolling(7).mean), row p.
SevenDayAvgAt(frame, p) ==
    LET g == GroupPositions(frame, frame[p].Country)
    IN  rolling_mean(ConfirmedOf(frame, g), Window)[RankIn(g, p)]

\* Lines 15-19, one row.
LocalValue(c, r) ==
    CASE c = "CFR" -> Scale(TrueDiv(r.Deaths, r.Confirmed), Percent)
      [] c = "RecoveryRate" -> Scale(TrueDiv(r.Recovered, r.Confirmed), Percent)
      [] c = "CasesPerMillion" -> Scale(TrueDiv(r.Confirmed, r.Population), Million)
      [] c = "DeathsPerMillion" -> Scale(TrueDiv(r.Deaths, r.Population), Million)
      [] c = "ActiveRatio" -> Scale(TrueDiv(r.Active, r.Confirmed), Percent)

\* Lines 14-23 on the sorted frame: the derived columns are assigned, which
\* overwrites columns of those names read from the file.
Derive(frame) ==
    [p \in 1..Len(frame) |->
        [c \in (DOMAIN frame[p]) \cup DerivedCols |->
            IF c \in LocalCols THEN LocalValue(c, frame[p])
            ELSE IF c = "DailyGrowth" THEN DailyGrowthAt(frame, p)
            ELSE IF c = "SevenDayAvg" THEN SevenDayAvgAt(frame, p)
            ELSE frame[p][c]]]

\* load_data(): the possible results on the file `text`.
load_data(text) == {Derive(s) : s \in sort_values(read_csv(text))}

-----------------------------------------------------------------------------
(* The script body, lines 27-114.                                          *)

\* groupby sorts its keys; the two countries of the model in that order.
CountryOrder == <<"A", "B">>

\* Rows of `frame` at which `mask` is TRUE, in frame order (df[mask]).
BoolIndex(frame, mask) ==
    LET F[i \in 0..Len(frame)] ==
            IF i = 0 THEN <<>>
            ELSE IF mask[i] THEN Append(F[i - 1], frame[i]) ELSE F[i - 1]
    IN  F[Len(frame)]

\* The date mask with an exclusive upper end.
DateMaskExclusive(frame, range) ==
    [i \in 1..Len(frame) |->
        frame[i].Date >= range[1] /\ frame[i].Date < range[2]]

\* Lines 38-39: (df["Date"] >= date_range[0]) & (df["Date"] <= date_range[1]).
DateMask(frame, range) ==
    [i \in 1..Len(frame) |->
        frame[i].Date >= range[1] /\ frame[i].Date <= range[2]]

\* Lines 35-40.
FilterFrame(frame, conts, ctrys, range) ==
    LET m1 == [i \in 1..Len(frame) |-> frame[i].Continent \in conts]
        m2 == [i \in 1..Len(frame) |-> frame[i].Country \in ctrys]
        m3 == DateMask(frame, range)
    IN  BoolIndex(frame, [i \in 1..Len(frame) |-> m1[i] /\ m2[i] /\ m3[i]])

\* Series.sum() of an integer column (0 on an empty frame).
ColSum(frame, c) ==
    LET F[i \in 0..Len(frame)] == IF i = 0 THEN 0 ELSE F[i - 1] + frame[i][c]
    IN  F[Len(frame)]

\* sum of a float column, NaN skipped (skipna, min_count = 0): 0.0 when
\* nothing is left.
FloatSum(frame, c) ==
    LET F[i \in 0..Len(frame)] ==
            IF i = 0 THEN Num(0, 1)
            ELSE IF IsNull(frame[i][c]) THEN F[i - 1]
            ELSE FAdd(F[i - 1], frame[i][c])
    IN  F[Len(frame)]

CountValid(frame, c) == Cardinality({i \in 1..Len(frame) : ~IsNull(frame[i][c])})

\* mean of a float column, NaN skipped: NaN when nothing is left.
FloatMean(frame, c) ==
    IF CountValid(frame, c) = 0 THEN NaN
    ELSE FDivInt(FloatSum(frame, c), CountValid(frame, c))

\* The ratio without the guard.
KpiRatioUnguarded(part, total) == Scale(TrueDiv(part, total), Percent)

\* Lines 47-48: (part / total * 100) if total else 0.
KpiRatio(part, total) ==
    IF total # 0 THEN Scale(TrueDiv(part, total), Percent) ELSE Num(0, 1)

\* Lines 43-48.
Kpis(f) ==
    [total_cases |-> ColSum(f, "Confirmed"),
     total_deaths |-> ColSum(f, "Deaths"),
     total_recovered |-> ColSum(f, "Recovered"),
     active_cases |-> ColSum(f, "Active"),
     cfr |-> KpiRatio(ColSum(f, "Deaths"), ColSum(f, "Confirmed")),
     recovery_rate |-> KpiRatio(ColSum(f, "Recovered"), ColSum(f, "Confirmed"))]

\* The rows of f with Date d / with Country c, in frame order.
OnDate(f, d) == BoolIndex(f, [i \in 1..Len(f) |-> f[i].Date = d])
OfCountry(f, c) == BoolIndex(f, [i \in 1..Len(f) |-> f[i].Country = c])

\* Ascending sequence of a finite set of integers.
RECURSIVE Ascending(_)
Ascending(S) ==
    IF S = {} THEN <<>>
    ELSE LET m == CHOOSE x \in S : \A y \in S : x <= y
         IN  <<m>> \o Ascending(S \ {m})

\* The countries present in f, in groupby's sorted key order.
CountryKeys(f) ==
    BoolIndex(CountryOrder,
              [i \in 1..Len(CountryOrder) |->
                  \E r \in Rows(f) : r.Country = CountryOrder[i]])

\* Line 64: groupby("Date")[["Confirmed", "7DayAvg"]].sum().reset_index().
Trend(f) ==
    LET ds == Ascending({r.Date : r \in Rows(f)})
    IN  [k \in 1..Len(ds) |->
            [Date |-> ds[k],
             Confirmed |-> ColSum(OnDate(f, ds[k]), "Confirmed"),
             SevenDayAvg |-> FloatSum(OnDate(f, ds[k]), "SevenDayAvg")]]

Bins == <<Num(BinLow, 1), Num(BinModerate, 1), Num(BinHigh, 1),
          Num(BinCritical, 1), Inf>>
Labels == <<"Low", "Moderate", "High", "Critical">>

\* Lines 73-77: pd.cut(x, bins, labels) with the defaults right=True,
\* include_lowest=False: ids = bins.searchsorted(x, side="left"), and null
\* where x is NaN, ids = 0 or ids = len(bins).
Cut(v) ==
    IF IsNull(v) THEN "null"
    ELSE LET ids == Cardinality({b \in 1..Len(Bins) : FLess(Bins[b], v)})
         IN  IF ids = 0 \/ ids = Len(Bins) THEN "null" ELSE Labels[ids]

\* Lines 72-77.
RiskDf(f) ==
    LET cs == CountryKeys(f)
    IN  [k \in 1..Len(cs) |->
            LET m == FloatMean(OfCountry(f, cs[k]), "CasesPerMillion")
            IN  [Country |-> cs[k], CasesPerMillion |-> m, RiskLevel |-> Cut(m)]]

\* Line 85.
DeathsRecovery(f) ==
    LET cs == CountryKeys(f)
    IN  [k \in 1..Len(cs) |->
            [Country |-> cs[k],
             Deaths |-> ColSum(OfCountry(f, cs[k]), "Deaths"),
             Recovered |-> ColSum(OfCountry(f, cs[k]), "Recovered")]]

\* Line 93.
PopImpact(f) ==
    LET cs == CountryKeys(f)
    IN  [k \in 1..Len(cs) |->
            [Country |-> cs[k],
             CasesPerMillion |-> FloatMean(OfCountry(f, cs[k]), "CasesPerMillion"),
             DeathsPerMillion |-> FloatMean(OfCountry(f, cs[k]), "DeathsPerMillion")]]

\* An idxmax that keeps the last of equal maxima.
IdxMaxLast(x) ==
    LET F[i \in 1..Len(x)] ==
            IF i = 1 THEN 1
            ELSE LET best == F[i - 1]
                 IN  IF x[i].Confirmed >= x[best].Confirmed THEN i ELSE best
    IN  x[F[Len(x)]].idx

\* x["Confirmed"].idxmax(): the index label of the first row holding the
\* maximum.
IdxMax(x) ==
    LET F[i \in 1..Len(x)] ==
            IF i = 1 THEN 1
            ELSE LET best == F[i - 1]
                 IN  IF x[i].Confirmed > x[best].Confirmed THEN i ELSE best
    IN  x[F[Len(x)]].idx

\* x.loc[label]: the row carrying that index label.
Loc(x, label) == CHOOSE r \in Rows(x) : r.idx = label

\* Lines 101-102.
Peak(f) ==
    LET cs == CountryKeys(f)
    IN  [k \in 1..Len(cs) |->
            LET x == OfCountry(f, cs[k])
                r == Loc(x, IdxMax(x))
            IN  [Country |-> r.Country, Date |-> r.Date, Confirmed |-> r.Confirmed]]

\* The frame bound to df once the script body has run, had line 35 assigned
\* the filtered rows back to df.
FrameAfterInPlace(base, f) == f

\* The frame bound to df once the script body has run: lines 28-114 neither
\* assign df nor write into it (boolean indexing and groupby return new
\* frames).
FrameAfter(base, f) == base

-----------------------------------------------------------------------------
(* Input files.                                                            *)

Countries == {"A", "B"}
ContinentOf == [c \in Countries |-> IF c = "A" THEN "Asia" ELSE "Europe"]

\* Raw counts of one row: zero and non-zero denominators, non-zero
\* numerators over a zero denominator, and values on the risk bin edges.
Profiles ==
    {[Population |-> Million, Confirmed |-> 0, Deaths |-> 0, Recovered |-> 0, Active |-> 0],
     [Population |-> Million, Confirmed |-> 0, Deaths |-> 1, Recovered |-> 2, Active |-> 3],
     [Population |-> 0, Confirmed |-> 0, Deaths |-> 0, Recovered |-> 0, Active |-> 0],
     [Population |-> 0, Confirmed |-> BinModerate, Deaths |-> 10, Recovered |-> 900, Active |-> 90],
     [Population |-> Million, Confirmed |-> BinModerate, Deaths |-> 10, Recovered |-> 900, Active |-> 90],
     [Population |-> Million, Confirmed |-> BinCritical, Deaths |-> 200, Recovered |-> 15000, Active |-> 4800]}

RawRow(c, d, p) ==
    [Date |-> d, Country |-> c, Continent |-> ContinentOf[c],
     Population |-> p.Population, Confirmed |-> p.Confirmed,
     Deaths |-> p.Deaths, Recovered |-> p.Recovered, Active |-> p.Active]

RowText(r) == [c \in RawCols |-> CellText(c, r[c])]

\* The rows of one country on the dates of D, by date.
CountryRows(c, D, prof) ==
    LET ds == Ascending(D)
    IN  [k \in 1..Len(ds) |-> RowText(RawRow(c, ds[k], prof[<<c, ds[k]>>]))]

\* Short files: at most MaxRows rows, one per (Country, Date), the rows of
\* "A" before those of "B".
ShortKeys == Countries \X (1..MaxDate)
ShortFiles ==
    UNION {{CountryRows("A", {k[2] : k \in {x \in K : x[1] = "A"}}, prof)
            \o CountryRows("B", {k[2] : k \in {x \in K : x[1] = "B"}}, prof) :
                prof \in [K -> Profiles]} :
           K \in {X \in SUBSET ShortKeys : X # {} /\ Cardinality(X) <= MaxRows}}

\* Confirmed of country "A" on day i of a long file.
CurveKinds == {"ramp", "flat", "saw", "zero"}
Curve(kind, i) ==
    CASE kind = "ramp" -> (i - 1) * BinModerate
      [] kind = "flat" -> BinModerate
      [] kind = "saw" -> (1 + (i % 3)) * BinModerate
      [] kind = "zero" -> 0

LongProfile(kind, i) ==
    LET n == Curve(kind, i)
    IN  [Population |-> IF kind = "ramp" THEN 0 ELSE Million,
         Confirmed |-> n, Deaths |-> n \div Percent,
         Recovered |-> n \div 2, Active |-> n - (n \div Percent) - (n \div 2)]

OtherProfile(i) ==
    [Population |-> Million, Confirmed |-> 1500 * i, Deaths |-> 15,
     Recovered |-> 0, Active |-> 1500 * i - 15]

\* Long files: country "A" on the days 1..Window + ExtraLong, then up to
\* MaxOther rows of country "B" on consecutive days from day 3, so that rows
\* of "B" fall between rows of "A" once sorted.
LongFiles ==
    {[i \in 1..n |-> RowText(RawRow("A", i, LongProfile(kind, i)))]
     \o [j \in 1..m |-> RowText(RawRow("B", s + j - 1, OtherProfile(j)))] :
        n \in {Window + ExtraLong}, kind \in CurveKinds,
        m \in 0..MaxOther, s \in {3}}

-----------------------------------------------------------------------------
(* State.                                                                  *)

VARIABLES
    cache,        \* the value st.cache_data holds for load_data()
    df,           \* the script's df
    continent,    \* sidebar multiselect "Continent"
    country,      \* sidebar multiselect "Country"
    date_range,   \* sidebar date_input "Date Range"
    filtered_df,
    kpi,          \* total_cases .. recovery_rate
    trend, risk_df, dr, pop, peak,
    download      \* the bytes handed to st.download_button

vars == <<cache, df, continent, country, date_range, filtered_df, kpi,
          trend, risk_df, dr, pop, peak, download>>

\* Lines 31-33: the options and defaults of the widgets.
ContinentOptions(base) == {r.Continent : r \in Rows(base)}
CountryOptions(base) == {r.Country : r \in Rows(base)}
DateChoices(base) ==
    {d \in MinDate(Rows(base))..MaxDateOf(Rows(base)) :
        d - MinDate(Rows(base)) < Margin \/ MaxDateOf(Rows(base)) - d < Margin}

\* One run of the script, lines 27-114, under the widget values given:
\* load_data() is served from the cache, everything else is recomputed.
Script(conts, ctrys, range) ==
    /\ continent' = conts
    /\ country' = ctrys
    /\ date_range' = range
    /\ filtered_df' = FilterFrame(cache, conts, ctrys, range)
    /\ kpi' = Kpis(filtered_df')
    /\ trend' = Trend(filtered_df')
    /\ risk_df' = RiskDf(filtered_df')
    /\ dr' = DeathsRecovery(filtered_df')
    /\ pop' = PopImpact(filtered_df')
    /\ peak' = Peak(filtered_df')
    /\ download' = to_csv(filtered_df')
    /\ df' = FrameAfter(cache, filtered_df')
    /\ UNCHANGED cache

\* The first run: load_data() fills the cache, the widgets hold their
\* defaults (every continent, every country, [min Date, max Date]).
FirstRun(files) ==
    \E text \in files : \E base \in load_data(text) :
        /\ cache = base
        /\ continent = ContinentOptions(base)
        /\ country = CountryOptions(base)
        /\ date_range = <<MinDate(Rows(base)), MaxDateOf(Rows(base))>>
        /\ filtered_df = FilterFrame(base, continent, country, date_range)
        /\ kpi = Kpis(filtered_df)
        /\ trend = Trend(filtered_df)
        /\ risk_df = RiskDf(filtered_df)
        /\ dr = DeathsRecovery(filtered_df)
        /\ pop = PopImpact(filtered_df)
        /\ peak = Peak(filtered_df)
        /\ download = to_csv(filtered_df)
        /\ df = FrameAfter(base, filtered_df)

Init == FirstRun(ShortFiles)
InitLong == FirstRun(LongFiles)

\* The user changes one widget; Streamlit re-runs the script.
SelectContinent ==
    \E S \in SUBSET ContinentOptions(cache) :
        S # continent /\ Script(S, country, date_range)

SelectCountry ==
    \E S \in SUBSET CountryOptions(cache) :
        S # country /\ Script(continent, S, date_range)

PickDates ==
    \E a \in DateChoices(cache), b \in DateChoices(cache) :
        <<a, b>> # date_range /\ Script(continent, country, <<a, b>>)

Next == SelectContinent \/ SelectCountry \/ PickDates

Spec == Init /\ [][Next]_vars
SpecLong == InitLong /\ [][Next]_vars

-----------------------------------------------------------------------------
(* What the specification says, stated over sets of records and their      *)
(* dates rather than over frame positions.                                 *)

RECURSIVE SetSumInt(_, _)
SetSumInt(S, c) ==
    IF S = {} THEN 0
    ELSE LET r == CHOOSE x \in S : TRUE IN r[c] + SetSumInt(S \ {r}, c)

RECURSIVE SetSumFloat(_, _)
SetSumFloat(S, c) ==
    IF S = {} THEN Num(0, 1)
    ELSE LET r == CHOOSE x \in S : TRUE IN FAdd(r[c], SetSumFloat(S \ {r}, c))

\* Mean of column c over the records of S whose c is not null.
NonNullMean(S, c) ==
    LET V == {r \in S : ~IsNull(r[c])}
    IN  IF V = {} THEN NaN ELSE FDivInt(SetSumFloat(V, c), Cardinality(V))

\* Sum of column c over the records of S whose c is not null; null when
\* every one is null.
NonNullSum(S, c) ==
    LET V == {r \in S : ~IsNull(r[c])}
    IN  IF V = {} THEN NaN ELSE SetSumFloat(V, c)

\* The records of the same country dated before r / up to r.
Before(S, r) == {q \in S : q.Country = r.Country /\ q.Date < r.Date}
UpTo(S, r) == {q \in S : q.Country = r.Country /\ q.Date <= r.Date}
Latest(S) == CHOOSE q \in S : \A x \in S : x.Date <= q.Date

\* The positions of the base dataset that a FilterCriteria selects.
Selected(base, conts, ctrys, range) ==
    {i \in 1..Len(base) :
        /\ base[i].Continent \in conts
        /\ base[i].Country \in ctrys
        /\ range[1] <= base[i].Date
        /\ base[i].Date <= range[2]}

\* The k-th smallest element of a set of positions.
Nth(P, k) == CHOOSE i \in P : Cardinality({j \in P : j < i}) = k - 1

\* s is the subsequence of base at the positions P, in base order.
IsSubsequenceAt(s, base, P) ==
    /\ Len(s) = Cardinality(P)
    /\ \A k \in 1..Len(s) : s[k] = base[Nth(P, k)]

\* The band of a mean m >= 0 with left-inclusive, right-exclusive bands.
BandOf(m) ==
    IF FLess(m, Num(BinModerate, 1)) THEN "Low"
    ELSE IF FLess(m, Num(BinHigh, 1)) THEN "Moderate"
    ELSE IF FLess(m, Num(BinCritical, 1)) THEN "High"
    ELSE "Critical"

FilteredOf(c) == {r \in Rows(filtered_df) : r.Country = c}
CountriesShown == {r.Country : r \in Rows(filtered_df)}

-----------------------------------------------------------------------------
(* Claims.                                                                 *)

\* C1: every country of the risk view whose mean CasesPerMillion m is not
\* null and not negative carries the band of m with left-inclusive,
\* right-exclusive bands: Low for 0 <= m < 1000, Moderate for
\* 1000 <= m < 5000, High for 5000 <= m < 20000, Critical for m >= 20000.
C1_RiskBandsLeftInclusive ==
    \A k \in 1..Len(risk_df) :
        LET m == risk_df[k].CasesPerMillion
        IN  /\ m = NonNullMean(FilteredOf(risk_df[k].Country), "CasesPerMillion")
            /\ (~IsNull(m) /\ FLeq(Num(BinLow, 1), m)) =>
                   risk_df[k].RiskLevel = BandOf(m)

\* C2: in every loaded record, Confirmed = 0 makes CFR, RecoveryRate and
\* ActiveRatio null, and Population = 0 makes CasesPerMillion and
\* DeathsPerMillion null, whatever the numerator is.
C2_ZeroDenominatorIsNull ==
    \A r \in Rows(cache) :
        /\ r.Confirmed = 0 =>
               IsNull(r.CFR) /\ IsNull(r.RecoveryRate) /\ IsNull(r.ActiveRatio)
        /\ r.Population = 0 =>
               IsNull(r.CasesPerMillion) /\ IsNull(r.DeathsPerMillion)

\* C3: filtered_df is exactly the subsequence, in base order, of the base
\* records whose Continent and Country are selected and whose Date lies in
\* [start, end], both ends included; so an empty continent or country
\* selection, or start > end, gives the empty frame.
C3_FilterIsSelectedSubsequence ==
    /\ IsSubsequenceAt(filtered_df, cache,
                       Selected(cache, continent, country, date_range))
    /\ (continent = {} \/ country = {} \/ date_range[1] > date_range[2]) =>
           filtered_df = <<>>

\* C3 witness: a proper, non-empty selection made by a one-day interval and
\* a country selection, with a record on that day.
C3_Witness ==
    /\ date_range[1] = date_range[2]
    /\ country # CountryOptions(cache)
    /\ filtered_df # <<>>
    /\ Len(filtered_df) < Len(cache)

\* The exported record r reappears once in the reloaded frame with the same
\* raw fields and the same values in the derived columns of D.
ReloadedAlike(reloaded, r, D) ==
    /\ Cardinality({q \in Rows(reloaded) :
                       q.Country = r.Country /\ q.Date = r.Date}) = 1
    /\ \A q \in Rows(reloaded) :
           (q.Country = r.Country /\ q.Date = r.Date) =>
               \A c \in RawCols \cup D : q[c] = r[c]

\* Every same-country base record dated before r is exported as well.
HistoryExported(r) == Before(Rows(cache), r) \subseteq Rows(filtered_df)

\* C4 as stated: reloading the export through load_data gives back every
\* exported record with identical raw fields and identical derived values,
\* also for records whose country history the filter cut.
C4_RoundTripAllDerived ==
    \A reloaded \in load_data(download) :
        /\ Len(reloaded) = Len(filtered_df)
        /\ \A r \in Rows(filtered_df) : ReloadedAlike(reloaded, r, DerivedCols)

\* C4 amended: reloading the export gives back every exported record with
\* identical raw fields and identical row-local derived values (CFR,
\* RecoveryRate, CasesPerMillion, DeathsPerMillion, ActiveRatio); DailyGrowth
\* and 7DayAvg are reproduced for every exported record all of whose
\* same-country earlier base records are exported too.
C4_RoundTripUncutHistory ==
    \A reloaded \in load_data(download) :
        /\ Len(reloaded) = Len(filtered_df)
        /\ \A r \in Rows(filtered_df) :
               /\ ReloadedAlike(reloaded, r, LocalCols)
               /\ HistoryExported(r) => ReloadedAlike(reloaded, r, DerivedCols)

\* C4 witness: a proper export holding a record with its whole history and
\* with non-null DailyGrowth and 7DayAvg.
C4_Witness ==
    /\ Len(filtered_df) < Len(cache)
    /\ \E r \in Rows(filtered_df) :
           /\ HistoryExported(r)
           /\ ~IsNull(r.DailyGrowth)
           /\ ~IsNull(r.SevenDayAvg)

\* C5: within a country by ascending Date, DailyGrowth is null for the first
\* record, null whenever the previous record's Confirmed is 0, and otherwise
\* (Confirmed - previous Confirmed) / previous Confirmed * 100, the previous
\* record being the same country's.
C5_DailyGrowthZeroGuarded ==
    \A r \in Rows(cache) :
        LET P == Before(Rows(cache), r)
        IN  IF P = {} THEN IsNull(r.DailyGrowth)
            ELSE IF Latest(P).Confirmed = 0 THEN IsNull(r.DailyGrowth)
            ELSE r.DailyGrowth =
                     Num((r.Confirmed - Latest(P).Confirmed) * Percent,
                         Latest(P).Confirmed)

\* C6: within a country by ascending Date, 7DayAvg is null for the first six
\* records and from the seventh on it is the mean of Confirmed over that
\* record and the country's six records before it, whatever rows of other
\* countries lie between them.
C6_SevenDayAvgTrailingInCountry ==
    \A r \in Rows(cache) :
        LET H == UpTo(Rows(cache), r)
            W == {q \in H : Cardinality({x \in H : x.Date > q.Date}) < Window}
        IN  IF Cardinality(H) < Window THEN IsNull(r.SevenDayAvg)
            ELSE r.SevenDayAvg = Num(SetSumInt(W, "Confirmed"), Window)

\* C6 witness: a record with a 7DayAvg, a record without one, and a row of
\* another country lying between two rows of the averaged window.
C6_Witness ==
    \E i, j, k \in 1..Len(cache) :
        /\ i < j /\ j < k
        /\ cache[i].Country = cache[k].Country
        /\ cache[j].Country # cache[k].Country
        /\ ~IsNull(cache[k].SevenDayAvg)
        /\ IsNull(cache[i].SevenDayAvg)
        /\ Cardinality({x \in UpTo(Rows(cache), cache[k]) :
                           x.Date >= cache[i].Date}) <= Window

C8_EmptySelectionDegrades ==
    Selected(cache, continent, country, date_range) = {} =>
        /\ kpi.total_cases = 0 /\ kpi.total_deaths = 0
        /\ kpi.total_recovered = 0 /\ kpi.active_cases = 0
        /\ kpi.cfr = Num(0, 1) /\ kpi.recovery_rate = Num(0, 1)
        /\ trend = <<>> /\ risk_df = <<>> /\ dr = <<>>
        /\ pop = <<>> /\ peak = <<>>

\* C8 witness: both countries and continents selected, yet start > end
\* selects nothing from a non-empty base.
C8_Witness ==
    /\ cache # <<>>
    /\ continent # {} /\ country # {}
    /\ date_range[1] > date_range[2]
    /\ Selected(cache, continent, country, date_range) = {}

\* C9: grouped views leave null values out instead of counting them as zero:
\* the per-country means of CasesPerMillion and DeathsPerMillion divide by
\* the number of non-null records, and the trend view has one row per Date
\* present, ascending, with the sum of Confirmed and the sum of the non-null
\* 7DayAvg values, a date whose 7DayAvg values are all null not showing 0.
C9_NullsExcludedNotZeroed ==
    /\ \A k \in 1..Len(risk_df) :
           risk_df[k].CasesPerMillion =
               NonNullMean(FilteredOf(risk_df[k].Country), "CasesPerMillion")
    /\ \A k \in 1..Len(pop) :
           /\ pop[k].CasesPerMillion =
                  NonNullMean(FilteredOf(pop[k].Country), "CasesPerMillion")
           /\ pop[k].DeathsPerMillion =
                  NonNullMean(FilteredOf(pop[k].Country), "DeathsPerMillion")
    /\ Len(trend) = Cardinality({r.Date : r \in Rows(filtered_df)})
    /\ \A k \in 1..Len(trend) :
           LET S == {r \in Rows(filtered_df) : r.Date = trend[k].Date}
           IN  /\ S # {}
               /\ k > 1 => trend[k - 1].Date < trend[k].Date
               /\ trend[k].Confirmed = SetSumInt(S, "Confirmed")
               /\ trend[k].SevenDayAvg = NonNullSum(S, "SevenDayAvg")

\* C10: the peak view has exactly one row per country of the filtered set,
\* holding the maximum Confirmed of that country's filtered records and the
\* earliest Date among the records attaining it.
C10_PeakIsEarliestMaximum ==
    /\ Len(peak) = Cardinality(CountriesShown)
    /\ \A c \in CountriesShown :
           /\ Cardinality({k \in 1..Len(peak) : peak[k].Country = c}) = 1
           /\ \A k \in 1..Len(peak) :
                  peak[k].Country = c =>
                      LET M == {r \in FilteredOf(c) :
                                   \A q \in FilteredOf(c) : q.Confirmed <= r.Confirmed}
                      IN  /\ \E r \in M : r.Confirmed = peak[k].Confirmed
                          /\ \E r \in M : r.Date = peak[k].Date
                          /\ \A r \in M : peak[k].Date <= r.Date

\* C10 witness: a country whose filtered records attain their maximum on
\* several dates, the first filtered record not being one of them.
C10_Witness ==
    \E c \in CountriesShown :
        LET M == {r \in FilteredOf(c) :
                     \A q \in FilteredOf(c) : q.Confirmed <= r.Confirmed}
        IN  /\ Cardinality(M) >= 2
            /\ \E q \in FilteredOf(c) : q \notin M /\ \A r \in M : q.Date < r.Date

=============================================================================
